---- MODULE Spec2Model ----
(***************************************************************************)
(* A model of explainflow's trace-capture engine: Tracer.trace and the     *)
(* sys.settrace callback Tracer._trace_callback (src/explainflow/tracer.py)*)
(* together with the part of the host interpreter that feeds it events.    *)
(*                                                                         *)
(* Text is modelled as a sequence of one-character strings, a dict as a    *)
(* function whose DOMAIN is the set of its keys, and a live Python value   *)
(* by a tag: "None", "1", "2", "fn" for a callable that carries no         *)
(* __explainflow_traced__ marker, "bad" for an object whose __ne__ and     *)
(* __repr__ raise, "list:[]" and "list:[1]" for one list before and after  *)
(* an append ("copy:..." for its deep copies), "gen:0" and "gen:1" for one *)
(* generator before and after it is advanced.  The traced program is any   *)
(* stream of events the interpreter can deliver (calls, lines, stores,     *)
(* raises, handlers, returns); its text only supplies the line table.  The *)
(* data model's own interface (Variable.from_value and the queries of      *)
(* ExecutionTrace, src/explainflow/models.py) is modelled by the calls a   *)
(* client makes of it.                                                     *)
(***************************************************************************)
EXTENDS Integers, Sequences, FiniteSets, TLC

\* ---------------------------------------------------------------- bounds
MaxSteps == 3      \* largest max_steps a Tracer is constructed with
MaxDepth == 2      \* deepest frame stack of the traced program
MaxOutput == 1     \* most characters the traced program writes
MaxRendering == 104  \* longest repr() of a value handed to Variable.from_value
MaxQuery == 2      \* most steps of a trace a client builds by hand

\* ------------------------------------------------------------- constants
TracedFilename == "<explainflow>"
ReprLimit == 100   \* len(repr_val) > 100
ReprKept == 97     \* repr_val[:97]
OtherFilename == "<library>"

Max(a, b) == IF a >= b THEN a ELSE b

\* ------------------------------------------------------------------ text
Whitespace == {" ", "\n", "\t"}

RECURSIVE LStrip(_)
LStrip(s) == IF s # <<>> /\ Head(s) \in Whitespace THEN LStrip(Tail(s)) ELSE s

RECURSIVE RStrip(_)
RStrip(s) ==
    IF s # <<>> /\ s[Len(s)] \in Whitespace
    THEN RStrip(SubSeq(s, 1, Len(s) - 1))
    ELSE s

\* str.strip()
Strip(s) == RStrip(LStrip(s))

\* str.split(sep) for a one-character separator
RECURSIVE Split(_, _)
Split(s, sep) ==
    IF \E i \in 1..Len(s) : s[i] = sep
    THEN LET i == CHOOSE k \in 1..Len(s) :
                      s[k] = sep /\ \A j \in 1..(k - 1) : s[j] # sep
         IN <<SubSeq(s, 1, i - 1)>> \o Split(SubSeq(s, i + 1, Len(s)), sep)
    ELSE <<s>>

\* sub in s
Contains(s, sub) ==
    \E i \in 1..(Len(s) - Len(sub) + 1) : SubSeq(s, i, i + Len(sub) - 1) = sub

\* s.startswith(p)
StartsWith(s, p) == Len(s) >= Len(p) /\ SubSeq(s, 1, Len(p)) = p

\* ------------------------------------------------------------ StepType
StepType ==
    {"LINE", "CALL", "RETURN", "EXCEPTION", "ASSIGNMENT", "LOOP_START",
     "LOOP_ITERATION", "LOOP_END", "CONDITION"}

ComparisonOrCompound ==
    {<<"=", "=">>, <<"!", "=">>, <<"<", "=">>, <<">", "=">>,
     <<"+", "=">>, <<"-", "=">>, <<"*", "=">>, <<"/", "=">>}

CompoundAssignment ==
    {<<"+", "=">>, <<"-", "=">>, <<"*", "=">>, <<"/", "=">>,
     <<"/", "/", "=">>, <<"%", "=">>, <<"*", "*", "=">>,
     <<"&", "=">>, <<"|", "=">>, <<"^", "=">>}

\* a classification that takes every visit of a loop header for an iteration
DetermineLineTypeIterating(line_content) ==
    LET stripped == Strip(line_content)
    IN IF stripped = <<>> \/ StartsWith(stripped, <<"#">>) THEN "LINE"
       ELSE IF /\ Contains(stripped, <<"=">>)
               /\ ~ \E op \in ComparisonOrCompound : Contains(stripped, op)
            THEN "ASSIGNMENT"
       ELSE IF \E op \in CompoundAssignment : Contains(stripped, op)
            THEN "ASSIGNMENT"
       ELSE IF \/ StartsWith(stripped, <<"f", "o", "r", " ">>)
               \/ StartsWith(stripped, <<"w", "h", "i", "l", "e", " ">>)
            THEN "LOOP_ITERATION"
       ELSE IF \/ StartsWith(stripped, <<"i", "f", " ">>)
               \/ StartsWith(stripped, <<"e", "l", "i", "f", " ">>)
               \/ StartsWith(stripped, <<"e", "l", "s", "e">>)
            THEN "CONDITION"
       ELSE "LINE"

\* Tracer._determine_line_type
DetermineLineType(line_content) ==
    LET stripped == Strip(line_content)
    IN IF stripped = <<>> \/ StartsWith(stripped, <<"#">>) THEN "LINE"
       ELSE IF /\ Contains(stripped, <<"=">>)
               /\ ~ \E op \in ComparisonOrCompound : Contains(stripped, op)
            THEN "ASSIGNMENT"
       ELSE IF \E op \in CompoundAssignment : Contains(stripped, op)
            THEN "ASSIGNMENT"
       ELSE IF \/ StartsWith(stripped, <<"f", "o", "r", " ">>)
               \/ StartsWith(stripped, <<"w", "h", "i", "l", "e", " ">>)
            THEN "LOOP_START"
       ELSE IF \/ StartsWith(stripped, <<"i", "f", " ">>)
               \/ StartsWith(stripped, <<"e", "l", "i", "f", " ">>)
               \/ StartsWith(stripped, <<"e", "l", "s", "e">>)
            THEN "CONDITION"
       ELSE "LINE"

\* ---------------------------------------------------------------- values
None == "None"

EmptyDict == [n \in {} |-> None]

\* dict.get(name)
Get(d, name) == IF name \in DOMAIN d THEN d[name] ELSE None

\* name.startswith('__')
IsDunderName(name) == StartsWith(name, <<"_", "_">>)

\* name.startswith('_')
IsInternalName(name) == StartsWith(name, <<"_">>)

\* callable(value) and not hasattr(value, '__explainflow_traced__')
IsUntracedCallable(value) == value = "fn"

\* previous_value != value raises for objects whose __ne__ raises
NeqRaises(a, b) == a = "bad" \/ b = "bad"

\* the objects a program can change in place, each as the tag it carries
\* before and after the change: a list ([] and then [1]) and a generator
\* (fresh and then advanced)
Mutations ==
    {[before |-> "list:[]", after |-> "list:[1]"],
     [before |-> "gen:0", after |-> "gen:1"]}

\* _is_copyable(value): a generator cannot be deep-copied
IsCopyable(value) == value \notin {"gen:0", "gen:1"}

\* copy.deepcopy(value): a new list with the same items, the object itself
\* for a value without parts
DeepCopy(value) ==
    IF value = "list:[]" THEN "copy:[]"
    ELSE IF value = "list:[1]" THEN "copy:[1]"
    ELSE value

\* what != looks at: the items of a list, the identity of a generator, the
\* value itself otherwise
Content(value) ==
    IF value \in {"list:[]", "copy:[]"} THEN "[]"
    ELSE IF value \in {"list:[1]", "copy:[1]"} THEN "[1]"
    ELSE IF value \in {"gen:0", "gen:1"} THEN "gen"
    ELSE value

\* previous_value != value
Neq(a, b) == Content(a) # Content(b)

\* storing the live value itself
SnapshotLive(value) == value

\* copy.deepcopy(value) if _is_copyable(value) else value
Snapshot(value) == IF IsCopyable(value) THEN DeepCopy(value) ELSE value

\* Variable.from_value: the comparison previous_value != value is the only
\* unguarded operation on the live value
FromValueRaises(value, previous_value) ==
    previous_value # None /\ NeqRaises(previous_value, value)

\* repr(value), "<repr error>" when it raises
ReprValue(value) ==
    IF value = "bad" THEN "<repr error>"
    ELSE IF value \in {"gen:0", "gen:1"} THEN "<generator object>"
    ELSE Content(value)

\* cutting every rendering longer than what is kept of a long one
TruncateReprEarly(repr_val) ==
    IF Len(repr_val) > ReprKept
    THEN SubSeq(repr_val, 1, ReprKept) \o <<".", ".", ".">>
    ELSE repr_val

\* if len(repr_val) > 100: repr_val = repr_val[:97] + "..."
TruncateRepr(repr_val) ==
    IF Len(repr_val) > ReprLimit
    THEN SubSeq(repr_val, 1, ReprKept) \o <<".", ".", ".">>
    ELSE repr_val

\* "<repr error>"
ReprError == <<"<", "r", "e", "p", "r", " ", "e", "r", "r", "o", "r", ">">>

\* the try block of Variable.from_value for a value whose repr() gives
\* repr_val, or raises; the value tags of the traced programs all render
\* shorter than the limit (ReprValue)
ReprText(raises, repr_val) == IF raises THEN ReprError ELSE TruncateRepr(repr_val)

FromValue(name, value, previous_value) ==
    [name |-> name,
     value |-> Snapshot(value),
     repr_value |-> ReprValue(value),
     changed |-> previous_value # None /\ Neq(previous_value, value)]

\* the names Tracer._capture_variables keeps
Captured(f_locals) ==
    {n \in DOMAIN f_locals :
        ~IsInternalName(n) /\ ~IsUntracedCallable(f_locals[n])}

\* Tracer._capture_variables
CaptureRaises(f_locals, previous) ==
    \E n \in Captured(f_locals) : FromValueRaises(f_locals[n], Get(previous, n))

CaptureVariables(f_locals, previous) ==
    [n \in Captured(f_locals) |-> FromValue(n, f_locals[n], Get(previous, n))]

\* Tracer._generate_explanation calls repr(arg) on a returned value
ExplanationRaises(step_type, arg) ==
    step_type = "RETURN" /\ arg # None /\ arg = "bad"

\* --------------------------------------------------------------- sources
\* "x = 1"
SrcAssign == <<"x", " ", "=", " ", "1">>
\* "x = "
SrcMalformed == <<"x", " ", "=", " ">>
\* "\nx = 1": the assignment under a blank line
SrcLeadingBlank == <<"\n", "x", " ", "=", " ", "1">>
\* "x = 1\n": the assignment with the newline that ends it
SrcTrailingBlank == <<"x", " ", "=", " ", "1", "\n">>
\* "x = y == 1": an assignment of a comparison
SrcAssignCompared == <<"x", " ", "=", " ", "y", " ", "=", "=", " ", "1">>
\* "x += 1"
SrcAugmented == <<"x", " ", "+", "=", " ", "1">>
\* "if x == 1: pass"
SrcCondition ==
    <<"i", "f", " ", "x", " ", "=", "=", " ", "1", ":", " ", "p", "a", "s", "s">>
\* "for i in y: pass"
SrcLoop ==
    <<"f", "o", "r", " ", "i", " ", "i", "n", " ", "y", ":", " ", "p", "a", "s", "s">>
\* "": the source without statements
SrcEmpty == <<>>
\* "x = '\udc80'": a lone surrogate, which compile() cannot encode
SrcSurrogate == <<"x", "=", "'", "\\udc80", "'">>

\* the sources, names and values the traced programs are made of, the
\* addresses the interpreter gives traceback objects, and whether the caller
\* keeps a returned trace while it calls trace again
CoreInputs ==
    [sources |-> {SrcAssign, SrcMalformed, SrcSurrogate},
     names |-> {<<"x">>},
     values |-> {"1", "bad"},
     tracebacks |-> {"0x7f01"},
     keeps |-> FALSE]

\* compile(code, filename, 'exec') as CPython answers for these sources
Compile(code) ==
    IF code = SrcMalformed
    THEN [outcome |-> "SyntaxError", msg |-> "invalid syntax", lineno |-> "1"]
    ELSE IF code = SrcSurrogate
    THEN [outcome |-> "UnicodeEncodeError", msg |-> "surrogates not allowed",
          lineno |-> "None"]
    ELSE [outcome |-> "ok", msg |-> "", lineno |-> "None"]

\* the line numbers a frame of the traced source can report
RawLineCount(code) == Len(Split(code, "\n"))

\* the lines of the text c that hold code
CodeLines(c) == {i \in 1..RawLineCount(c) : Strip(Split(c, "\n")[i]) # <<>>}

\* the text c holds a statement
HasStatements(c) == CodeLines(c) # {}

\* exceptions the traced program (or a method it supplies) can raise
ProgExceptions ==
    {[etype |-> "ValueError", msg |-> "", is_exception |-> TRUE],
     [etype |-> "SystemExit", msg |-> "3", is_exception |-> FALSE]}

NoExc == [etype |-> "", msg |-> "", is_exception |-> FALSE]

\* the keys of exec_globals, the globals of every function the source defines
ExecGlobals ==
    {<<"_", "_", "n", "a", "m", "e", "_", "_">>,
     <<"_", "_", "d", "o", "c", "_", "_">>,
     <<"_", "_", "b", "u", "i", "l", "t", "i", "n", "s", "_", "_">>}

\* what the interpreter raises for a name it finds in no namespace
NameError ==
    [etype |-> "NameError", msg |-> "name is not defined", is_exception |-> TRUE]

\* ----------------------------------------------------------------- state
VARIABLES
    max_steps,            \* Tracer.max_steps
    steps,                \* Tracer.steps
    step_count,           \* Tracer.step_count
    code_lines,           \* Tracer.code_lines
    previous_variables,   \* Tracer.previous_variables
    current_variables,    \* Tracer.current_variables
    call_depth,           \* Tracer.call_depth
    stopped,              \* Tracer._stopped
    output_buffer,        \* Tracer.output_buffer: what the program has written
    code,                 \* the argument of the running Tracer.trace call
    pc,                   \* where Tracer.trace stands
    success,              \* local of Tracer.trace
    error_message,        \* local of Tracer.trace
    exec_locals,          \* local of Tracer.trace: the namespace exec() fills
    settrace,             \* the host's trace hook: "none", "tracer", "other"
    frames,               \* frame stack of the traced program, module frame first
    pending,              \* the exception in flight in the traced program
    halts,                \* FALSE: the traced program is an endless loop of
                          \* lines and stores in its module frame
    traced_events,        \* events of traced-source frames handed to the callback
    result,               \* <<>> or <<the ExecutionTrace returned>>
    inputs,               \* what the traced programs are drawn from
    earlier,              \* <<>> or <<the trace the caller kept>>
    api                   \* <<>> or <<the latest call a client made of the data
                          \* model's own interface, with what it returned>>

\* the Tracer fields the callback writes
tracerVars ==
    <<steps, step_count, previous_variables, current_variables, call_depth, stopped>>

\* what Tracer.trace alone writes
traceVars ==
    <<max_steps, code_lines, code, success, error_message, halts, result, inputs,
      output_buffer, earlier, api>>

\* the interpreter's side
hostVars == <<pc, exec_locals, settrace, frames, pending, traced_events>>

vars == <<tracerVars, traceVars, hostVars>>

\* exc is in flight when active; notified: the running frame has had its
\* 'exception' event; origin: raised by the "program" or by the "callback";
\* late: raised when the step ceiling had already been reached
NoPending ==
    [exc |-> NoExc, active |-> FALSE, notified |-> FALSE, origin |-> "",
     late |-> FALSE]

\* Tracer.__init__, for every max_steps up to the bound
InitTracer ==
    /\ max_steps \in 0..MaxSteps
    /\ steps = <<>>
    /\ step_count = 0
    /\ code_lines = <<>>
    /\ previous_variables = EmptyDict
    /\ current_variables = EmptyDict
    /\ call_depth = 0
    /\ stopped = FALSE
    /\ output_buffer = <<>>
    /\ code = <<>>
    /\ pc = "idle"
    /\ success = TRUE
    /\ error_message = <<>>
    /\ exec_locals = EmptyDict
    /\ settrace \in {"none", "other"}
    /\ frames = <<>>
    /\ pending = NoPending
    /\ halts = TRUE
    /\ traced_events = 0
    /\ result = <<>>
    /\ earlier = <<>>
    /\ api = <<>>

Init == InitTracer /\ inputs = CoreInputs

\* ExecutionTrace(...)
ExecutionTrace(c, s, fv, out, ok, msg, n) ==
    [code |-> c, steps |-> s, final_variables |-> fv, final_output |-> out,
     success |-> ok, error_message |-> msg, total_lines |-> n]

\* the diagnostic without its line
SyntaxErrorMessageNoLine(compiled) == <<"SyntaxError: ", compiled.msg>>

\* f"SyntaxError: {e.msg} (line {e.lineno})"
SyntaxErrorMessage(compiled) ==
    <<"SyntaxError: ", compiled.msg, " (line ", compiled.lineno, ")">>

\* self.steps.clear(): the list a returned trace holds is emptied
AfterClear(old_steps) == <<>>

\* self.steps = []: the Tracer takes a new list, and the list it had, which a
\* returned trace holds, stays as it is
AfterRebind(old_steps) == old_steps

\* the trace the caller kept, as it is once the Tracer has reset its fields
KeptTrace(r) ==
    IF r = <<>> THEN <<>> ELSE <<[r[1] EXCEPT !.steps = AfterRebind(@)]>>

\* Tracer.trace, from its first line to the end of the compile block
TraceStart(c) ==
    /\ pc \in {"idle", "returned", "raised"}
    /\ code' = c
    /\ steps' = <<>>
    /\ step_count' = 0
    /\ code_lines' = Split(Strip(c), "\n")
    /\ previous_variables' = EmptyDict
    /\ current_variables' = EmptyDict
    /\ call_depth' = 0
    /\ stopped' = FALSE
    /\ output_buffer' = <<>>
    /\ exec_locals' = EmptyDict
    /\ success' = TRUE
    /\ error_message' = <<>>
    /\ frames' = <<>>
    /\ pending' = NoPending
    /\ halts' = TRUE
    /\ traced_events' = 0
    /\ LET compiled == Compile(c)
       IN IF compiled.outcome = "ok"
          THEN pc' = "compiled" /\ result' = <<>>
          ELSE IF compiled.outcome = "SyntaxError"
          THEN /\ pc' = "returned"
               /\ result' =
                    <<ExecutionTrace(c, <<>>, EmptyDict, <<>>, FALSE,
                        SyntaxErrorMessage(compiled),
                        Len(Split(Strip(c), "\n")))>>
          ELSE pc' = "raised" /\ result' = <<>>
    /\ earlier' = IF inputs.keeps THEN KeptTrace(result) ELSE <<>>
    /\ UNCHANGED <<max_steps, settrace, inputs, api>>

\* Tracer.trace: success = True; error_message = ""; sys.settrace(callback)
ExecStart ==
    /\ pc = "compiled"
    /\ success' = TRUE
    /\ error_message' = <<>>
    /\ settrace' = "tracer"
    /\ halts' \in (IF HasStatements(code) THEN BOOLEAN ELSE {TRUE})
    /\ pc' = "entering"
    /\ UNCHANGED tracerVars
    /\ UNCHANGED <<max_steps, code_lines, code, result, inputs, output_buffer,
                   earlier, api>>
    /\ UNCHANGED <<exec_locals, frames, pending, traced_events>>

\* ------------------------------------------------------ the event callback
\* line content as Tracer._trace_callback resolves it
LineContent(line_no) ==
    IF 1 <= line_no /\ line_no <= Len(code_lines)
    THEN code_lines[line_no]
    ELSE <<>>

\* the classification without its branch for 'return'
StepTypeOfNoReturn(event, line_content) ==
    IF event = "call" THEN "CALL"
    ELSE IF event = "exception" THEN "EXCEPTION"
    ELSE DetermineLineType(line_content)

\* the StepType of an event
StepTypeOf(event, line_content) ==
    IF event = "call" THEN "CALL"
    ELSE IF event = "return" THEN "RETURN"
    ELSE IF event = "exception" THEN "EXCEPTION"
    ELSE DetermineLineType(line_content)

\* Tracer.call_depth after the event
DepthAfter(event, depth) ==
    IF event = "call" THEN depth + 1
    ELSE IF event = "return" THEN Max(0, depth - 1)
    ELSE depth

\* the guard comparing with > instead of >=
CeilingReachedLate == stopped \/ step_count > max_steps

\* the guard that opens Tracer._trace_callback
CeilingReached == stopped \/ step_count >= max_steps

\* ExecutionStep(...)
ExecutionStep(n, line_no, content, kind, variables, output, ret, depth, exc, expl) ==
    [step_number |-> n, line_number |-> line_no, line_content |-> content,
     step_type |-> kind, variables |-> variables, output |-> output,
     return_value |-> ret, call_depth |-> depth, exception |-> exc,
     explanation |-> expl]

\* an explanation that names the target written on the line, whatever changed
GenerateExplanationByTarget(step_type, line_content, variables, arg) ==
    LET stripped == Strip(line_content)
        var_name == Strip(Split(stripped, "=")[1])
    IN IF step_type = "ASSIGNMENT"
       THEN IF Contains(stripped, <<"=">>) /\ var_name \in DOMAIN variables
            THEN <<"Set ", var_name, " to ", variables[var_name].repr_value>>
            ELSE <<"Assignment: ", stripped>>
       ELSE IF step_type = "CONDITION" THEN <<"Evaluating condition: ", stripped>>
       ELSE IF step_type = "RETURN" /\ arg # None THEN <<"Returning: ", ReprValue(arg)>>
       ELSE <<"Executing: ", stripped>>

\* Tracer._generate_explanation
GenerateExplanation(step_type, line_content, variables, arg) ==
    LET stripped == Strip(line_content)
        changed == {n \in DOMAIN variables : variables[n].changed}
        var_name == Strip(Split(stripped, "=")[1])
    IN IF step_type = "ASSIGNMENT"
       THEN IF changed # {}
            THEN LET var == variables[CHOOSE n \in changed : TRUE]
                 IN <<"Set ", var.name, " to ", var.repr_value>>
            ELSE IF Contains(stripped, <<"=">>) /\ var_name \in DOMAIN variables
            THEN <<"Set ", var_name, " to ", variables[var_name].repr_value>>
            ELSE <<"Assignment: ", stripped>>
       ELSE IF step_type = "LOOP_START"
       THEN IF StartsWith(stripped, <<"f", "o", "r", " ">>)
            THEN <<"Starting loop: ", stripped>>
            ELSE <<"Checking loop condition: ", stripped>>
       ELSE IF step_type = "CONDITION" THEN <<"Evaluating condition: ", stripped>>
       ELSE IF step_type = "CALL" THEN <<"Calling function">>
       ELSE IF step_type = "RETURN"
       THEN IF arg # None THEN <<"Returning: ", ReprValue(arg)>> ELSE <<"Returning from function">>
       ELSE IF step_type = "EXCEPTION" THEN <<"Exception: ", arg>>
       ELSE IF stripped # <<>> THEN <<"Executing: ", stripped>>
       ELSE <<"Empty line">>

\* what Tracer._trace_callback(frame, event, arg) gives the interpreter:
\* "self", "none", or "raise" when an exception leaves it
CallbackOut(frame, event, arg, line_no) ==
    IF CeilingReached THEN "none"
    ELSE IF frame.co_filename # TracedFilename THEN "self"
    ELSE IF \/ CaptureRaises(frame.f_locals, previous_variables)
            \/ ExplanationRaises(StepTypeOf(event, LineContent(line_no)), arg)
         THEN "raise"
    ELSE "self"

\* the step numbered before the counter is advanced
NewStepStale(frame, event, arg, line_no) ==
    LET step_type == StepTypeOf(event, LineContent(line_no))
        variables == CaptureVariables(frame.f_locals, previous_variables)
    IN ExecutionStep(step_count, line_no, LineContent(line_no), step_type,
           variables, output_buffer, IF event = "return" THEN arg ELSE None,
           DepthAfter(event, call_depth), NoExc,
           GenerateExplanation(step_type, LineContent(line_no), variables, arg))

\* the step Tracer._trace_callback appends
NewStep(frame, event, arg, line_no) ==
    LET step_type == StepTypeOf(event, LineContent(line_no))
        variables == CaptureVariables(frame.f_locals, previous_variables)
    IN ExecutionStep(step_count + 1, line_no, LineContent(line_no), step_type,
           variables, output_buffer, IF event = "return" THEN arg ELSE None,
           DepthAfter(event, call_depth), NoExc,
           GenerateExplanation(step_type, LineContent(line_no), variables, arg))

\* returning None without setting _stopped
LatchStopForgets == UNCHANGED tracerVars

\* Tracer._trace_callback once the ceiling is reached: latch and return None
LatchStop ==
    /\ stopped' = TRUE
    /\ UNCHANGED <<steps, step_count, previous_variables, current_variables,
                   call_depth>>

\* Tracer._trace_callback below the ceiling, for a frame of the traced source
RecordEvent(frame, event, arg, line_no) ==
    /\ call_depth' = DepthAfter(event, call_depth)
    /\ stopped' = stopped
    /\ IF CaptureRaises(frame.f_locals, previous_variables)
       THEN UNCHANGED <<steps, step_count, previous_variables, current_variables>>
       ELSE LET variables == CaptureVariables(frame.f_locals, previous_variables)
            IN /\ previous_variables' =
                      [n \in DOMAIN variables |-> variables[n].value]
               /\ IF ExplanationRaises(StepTypeOf(event, LineContent(line_no)), arg)
                  THEN UNCHANGED <<steps, step_count, current_variables>>
                  ELSE /\ step_count' = step_count + 1
                       /\ steps' = Append(steps, NewStep(frame, event, arg, line_no))
                       /\ current_variables' = variables

\* the callback without its filename filter
TraceCallbackUnfiltered(frame, event, arg, line_no) ==
    IF CeilingReached THEN LatchStop ELSE RecordEvent(frame, event, arg, line_no)

\* Tracer._trace_callback(frame, event, arg): what it does to the Tracer
TraceCallback(frame, event, arg, line_no) ==
    IF CeilingReached THEN LatchStop
    ELSE IF frame.co_filename # TracedFilename THEN UNCHANGED tracerVars
    ELSE RecordEvent(frame, event, arg, line_no)

\* ------------------------------------------------- the traced program runs
\* the interpreter hands an event to the registered hook: the global hook
\* sees every call, a frame's local hook (f_trace) the events of that frame
Delivered(frame, event) ==
    settrace = "tracer" /\ (event = "call" \/ frame.f_trace)

DispatchOut(frame, event, arg, line_no) ==
    IF Delivered(frame, event)
    THEN CallbackOut(frame, event, arg, line_no)
    ELSE "skip"

Dispatch(frame, event, arg, line_no) ==
    IF Delivered(frame, event)
    THEN /\ TraceCallback(frame, event, arg, line_no)
         /\ traced_events' =
              IF /\ frame.co_filename = TracedFilename
                 /\ traced_events <= max_steps
              THEN traced_events + 1
              ELSE traced_events
    ELSE /\ UNCHANGED tracerVars
         /\ UNCHANGED traced_events

\* an exception that left the callback: the interpreter removes the hook and
\* raises it in the traced program
FromCallback(e) ==
    [exc |-> e, active |-> TRUE, notified |-> TRUE, origin |-> "callback",
     late |-> FALSE]

\* the hook and the exception in flight after a callback call; e is the
\* exception that left the callback, NoExc when none did
AfterCallback(out, e, otherwise) ==
    IF out = "raise"
    THEN e # NoExc /\ settrace' = "none" /\ pending' = FromCallback(e)
    ELSE e = NoExc /\ settrace' = settrace /\ pending' = otherwise

Top == frames[Len(frames)]
Pop == SubSeq(frames, 1, Len(frames) - 1)
\* the lines events report: the lines of the source that hold code; the code
\* compiled from a source without statements only returns None, on line 0
\* (CPython 3.11) or line 1 (before)
LineNumbers == IF HasStatements(code) THEN CodeLines(code) ELSE {0, 1}

\* a frame is left; leaving the module frame ends exec()
LeaveFrame(f_locals) ==
    /\ frames' = Pop
    /\ IF Len(frames) = 1
       THEN pc' = "exited" /\ exec_locals' = f_locals
       ELSE pc' = pc /\ exec_locals' = exec_locals

\* a frame is entered: exec() enters the module code, or the program calls
ProgCall(file, args, line_no, e) ==
    /\ pc \in {"entering", "exec"}
    /\ ~pending.active
    /\ IF pc = "entering"
       THEN file = TracedFilename /\ args = EmptyDict
       ELSE halts /\ Len(frames) < MaxDepth /\ HasStatements(code)
    \* the callback never reads the locals of a frame of another file
    /\ file # TracedFilename => args = EmptyDict
    /\ LET frame == [co_filename |-> file, f_trace |-> FALSE, f_locals |-> args]
           out == DispatchOut(frame, "call", None, line_no)
       IN /\ Dispatch(frame, "call", None, line_no)
          /\ AfterCallback(out, e, pending)
          /\ IF out = "raise"
             THEN /\ frames' = frames
                  /\ pc' = IF pc = "entering" THEN "exited" ELSE pc
             ELSE /\ frames' = Append(frames, [frame EXCEPT !.f_trace = (out = "self")])
                  /\ pc' = "exec"
    /\ UNCHANGED exec_locals
    /\ UNCHANGED traceVars

\* the program is about to execute a line of the running frame
ProgLine(line_no, e) ==
    /\ pc = "exec"
    /\ ~pending.active
    /\ Dispatch(Top, "line", None, line_no)
    /\ AfterCallback(DispatchOut(Top, "line", None, line_no), e, pending)
    /\ UNCHANGED <<frames, pc, exec_locals>>
    /\ UNCHANGED traceVars

\* the program binds a name in the running frame (of the traced source: the
\* callback never reads the locals of another file's frame)
ProgStore(name, value) ==
    /\ pc = "exec"
    /\ HasStatements(code)
    /\ ~pending.active
    /\ Top.co_filename = TracedFilename
    /\ frames' = [frames EXCEPT ![Len(frames)].f_locals =
            [n \in DOMAIN @ \cup {name} |-> IF n = name THEN value ELSE @[n]]]
    /\ UNCHANGED <<pc, exec_locals, settrace, pending, traced_events>>
    /\ UNCHANGED tracerVars
    /\ UNCHANGED traceVars

\* del name
ProgDelete(name) ==
    /\ pc = "exec"
    /\ ~pending.active
    /\ Top.co_filename = TracedFilename
    /\ name \in DOMAIN Top.f_locals
    /\ frames' = [frames EXCEPT ![Len(frames)].f_locals =
            [n \in DOMAIN @ \ {name} |-> @[n]]]
    /\ UNCHANGED <<pc, exec_locals, settrace, pending, traced_events>>
    /\ UNCHANGED tracerVars
    /\ UNCHANGED traceVars

\* a statement of the running frame raises
ProgRaise(e) ==
    /\ pc = "exec"
    /\ HasStatements(code)
    /\ halts
    /\ ~pending.active
    /\ pending' = [exc |-> e, active |-> TRUE, notified |-> FALSE,
                    origin |-> "program", late |-> CeilingReached]
    /\ UNCHANGED <<frames, pc, exec_locals, settrace, traced_events>>
    /\ UNCHANGED tracerVars
    /\ UNCHANGED traceVars

\* the arg of an 'exception' event: (type, value, traceback object)
ExcInfo(exc, tb) == [etype |-> exc.etype, value |-> exc.msg, traceback |-> tb]

\* the exception in flight reaches the running frame: 'exception' event
ProgExceptionEvent(line_no, tb, e) ==
    /\ pc = "exec"
    /\ pending.active /\ ~pending.notified
    /\ Dispatch(Top, "exception", ExcInfo(pending.exc, tb), line_no)
    /\ AfterCallback(DispatchOut(Top, "exception", ExcInfo(pending.exc, tb), line_no),
                     e, [pending EXCEPT !.notified = TRUE])
    /\ UNCHANGED <<frames, pc, exec_locals>>
    /\ UNCHANGED traceVars

\* an except clause of the running frame handles the exception
ProgCatch ==
    /\ pc = "exec"
    /\ pending.active /\ pending.notified
    /\ pending' = NoPending
    /\ UNCHANGED <<frames, pc, exec_locals, settrace, traced_events>>
    /\ UNCHANGED tracerVars
    /\ UNCHANGED traceVars

\* the exception leaves the running frame: 'return' event with arg None
ProgUnwind(line_no, e) ==
    /\ pc = "exec"
    /\ pending.active /\ pending.notified
    /\ Len(frames) > 1 \/ halts \/ pending.origin = "callback"
    /\ Dispatch(Top, "return", None, line_no)
    /\ AfterCallback(DispatchOut(Top, "return", None, line_no), e,
                     [pending EXCEPT !.notified = FALSE])
    /\ LeaveFrame(Top.f_locals)
    /\ UNCHANGED traceVars

\* the running frame returns arg: 'return' event
ProgReturn(arg, line_no, e) ==
    /\ pc = "exec"
    /\ ~pending.active
    /\ IF Len(frames) = 1 THEN halts /\ arg = None ELSE TRUE
    /\ Dispatch(Top, "return", arg, line_no)
    /\ AfterCallback(DispatchOut(Top, "return", arg, line_no), e, pending)
    /\ LeaveFrame(Top.f_locals)
    /\ UNCHANGED traceVars

\* a function frame finds a name in its own locals or in exec_globals; what
\* the top level of the source binds lives in exec_locals
NamespaceHas(name) == name \in ExecGlobals \/ name \in DOMAIN Top.f_locals

\* a called function of the source refers to a name bound at its top level
\* (a function defined there, itself included)
ProgLoadGlobal(name) ==
    /\ pc = "exec"
    /\ halts
    /\ ~pending.active
    /\ Len(frames) >= 2
    /\ Top.co_filename = TracedFilename
    /\ name \in DOMAIN frames[1].f_locals
    /\ ~NamespaceHas(name)
    /\ pending' = [exc |-> NameError, active |-> TRUE, notified |-> FALSE,
                    origin |-> "program", late |-> CeilingReached]
    /\ UNCHANGED <<frames, pc, exec_locals, settrace, traced_events>>
    /\ UNCHANGED tracerVars
    /\ UNCHANGED traceVars

\* print(text): the program writes to the redirected stdout
ProgPrint(text) ==
    /\ pc = "exec"
    /\ HasStatements(code)
    /\ ~pending.active
    /\ Len(output_buffer) + Len(text) <= MaxOutput
    /\ output_buffer' = output_buffer \o text
    /\ UNCHANGED <<max_steps, code_lines, code, success, error_message, halts,
                   result, inputs, earlier, api>>
    /\ UNCHANGED hostVars
    /\ UNCHANGED tracerVars

\* the value v after the change m of the object it is
MutateValue(m, v) == IF v = m.before THEN m.after ELSE v

MutateVariables(m, variables) ==
    [n \in DOMAIN variables |->
        [variables[n] EXCEPT !.value = MutateValue(m, @)]]

\* x.append(1), next(g): the program changes an object in place; whatever
\* holds the object itself (a frame, a step, the Tracer's caches) sees it
ProgMutate(m) ==
    /\ pc = "exec"
    /\ ~pending.active
    /\ Top.co_filename = TracedFilename
    /\ \E n \in DOMAIN Top.f_locals : Top.f_locals[n] = m.before
    /\ frames' =
          [i \in 1..Len(frames) |->
              [frames[i] EXCEPT !.f_locals =
                  [n \in DOMAIN @ |-> MutateValue(m, @[n])]]]
    /\ steps' =
          [i \in 1..Len(steps) |->
              [steps[i] EXCEPT !.variables = MutateVariables(m, @),
                               !.return_value = MutateValue(m, @)]]
    /\ previous_variables' =
          [n \in DOMAIN previous_variables |-> MutateValue(m, previous_variables[n])]
    /\ current_variables' = MutateVariables(m, current_variables)
    /\ UNCHANGED <<step_count, call_depth, stopped>>
    /\ UNCHANGED <<pc, exec_locals, settrace, pending, traced_events>>
    /\ UNCHANGED traceVars

\* ------------------------------------------------ Tracer.trace after exec()
\* leaving the with block without the finally clause
ExecFinallyKeepsHook ==
    /\ pc = "exited"
    /\ pc' = "unwound"
    /\ UNCHANGED <<exec_locals, settrace, frames, pending, traced_events>>
    /\ UNCHANGED tracerVars
    /\ UNCHANGED traceVars

\* finally: sys.settrace(None)
ExecFinally ==
    /\ pc = "exited"
    /\ settrace' = "none"
    /\ pc' = "unwound"
    /\ UNCHANGED <<exec_locals, frames, pending, traced_events>>
    /\ UNCHANGED tracerVars
    /\ UNCHANGED traceVars

\* str(e) alone
FormatErrorMessageOnly(e) == <<e.msg>>

\* f"{type(e).__name__}: {str(e)}"
FormatError(e) == <<e.etype, ": ", e.msg>>

\* the except clause adding its step only below the ceiling
WithExceptionStepBelowCeiling(e) ==
    IF steps # <<>> /\ Len(steps) < max_steps
    THEN LET last_step == steps[Len(steps)]
         IN Append(steps,
                ExecutionStep(Len(steps) + 1, last_step.line_number,
                    last_step.line_content, "EXCEPTION", current_variables, <<>>,
                    None, 0, e, <<"Exception raised: ", FormatError(e)>>))
    ELSE steps

\* the steps after the except clause has added its step
WithExceptionStep(e) ==
    IF steps # <<>>
    THEN LET last_step == steps[Len(steps)]
         IN Append(steps,
                ExecutionStep(Len(steps) + 1, last_step.line_number,
                    last_step.line_content, "EXCEPTION", current_variables, <<>>,
                    None, 0, e, <<"Exception raised: ", FormatError(e)>>))
    ELSE steps

\* except Exception as e
TraceExcept ==
    /\ pc = "unwound"
    /\ pending.active /\ pending.exc.is_exception
    /\ success' = FALSE
    /\ error_message' = FormatError(pending.exc)
    /\ steps' = WithExceptionStep(pending.exc)
    /\ pc' = "handled"
    /\ UNCHANGED <<step_count, previous_variables, current_variables,
                   call_depth, stopped>>
    /\ UNCHANGED <<max_steps, code_lines, code, halts, result, inputs, output_buffer,
                   earlier, api>>
    /\ UNCHANGED <<exec_locals, settrace, frames, pending, traced_events>>

\* an exception that is not an Exception passes the except clause and
\* leaves Tracer.trace
TracePropagate ==
    /\ pc = "unwound"
    /\ pending.active /\ ~pending.exc.is_exception
    /\ pc' = "raised"
    /\ UNCHANGED <<exec_locals, settrace, frames, pending, traced_events>>
    /\ UNCHANGED tracerVars
    /\ UNCHANGED traceVars

\* the output as it stood at the last recorded step
FinalOutputAtLastStep == IF steps = <<>> THEN <<>> ELSE steps[Len(steps)].output

\* final_output=self.output_buffer.getvalue()
FinalOutput == output_buffer

\* final_vars of Tracer.trace
FinalVariables(locals) ==
    [n \in {m \in DOMAIN locals : ~IsInternalName(m)} |->
        FromValue(n, locals[n], None)]

\* return ExecutionTrace(...)
TraceReturn ==
    /\ pc = "handled" \/ (pc = "unwound" /\ ~pending.active)
    /\ result' = <<ExecutionTrace(code, steps, FinalVariables(exec_locals),
                       FinalOutput, success, error_message, Len(code_lines))>>
    /\ pc' = "returned"
    /\ UNCHANGED <<max_steps, code_lines, code, success, error_message, halts, inputs,
                   output_buffer, earlier, api>>
    /\ UNCHANGED <<exec_locals, settrace, frames, pending, traced_events>>
    /\ UNCHANGED tracerVars

\* ------------------------------------------------------------ the machine
Args == {EmptyDict} \cup {[n \in {m} |-> v] : m \in inputs.names, v \in inputs.values}
Filenames == {TracedFilename, OtherFilename}
Raised == ProgExceptions \cup {NoExc}

Next ==
    \/ \E c \in inputs.sources : TraceStart(c)
    \/ ExecStart
    \/ \E file \in Filenames, args \in Args, line_no \in LineNumbers, e \in Raised :
          ProgCall(file, args, line_no, e)
    \/ \E line_no \in LineNumbers, e \in Raised : ProgLine(line_no, e)
    \/ \E name \in inputs.names, value \in inputs.values : ProgStore(name, value)
    \/ \E name \in inputs.names : ProgDelete(name)
    \/ \E e \in ProgExceptions : ProgRaise(e)
    \/ \E name \in inputs.names : ProgLoadGlobal(name)
    \/ \E line_no \in LineNumbers, tb \in inputs.tracebacks, e \in Raised :
          ProgExceptionEvent(line_no, tb, e)
    \/ ProgCatch
    \/ \E line_no \in LineNumbers, e \in Raised : ProgUnwind(line_no, e)
    \/ \E arg \in inputs.values \cup {None}, line_no \in LineNumbers, e \in Raised :
          ProgReturn(arg, line_no, e)
    \/ ExecFinally
    \/ TraceExcept
    \/ TracePropagate
    \/ TraceReturn

Spec == Init /\ [][Next]_vars

\* the same machine for programs that also write to stdout
PrintInputs ==
    [sources |-> {SrcAssign},
     names |-> {<<"x">>},
     values |-> {"1"},
     tracebacks |-> {"0x7f01"},
     keeps |-> FALSE]

Texts == {<<"a">>}

\* Tracers whose ceiling lies below the largest, which the program outruns
InitPrinting == InitTracer /\ max_steps < MaxSteps /\ inputs = PrintInputs

NextPrinting == Next \/ \E text \in Texts : ProgPrint(text)

PrintSpec == InitPrinting /\ [][NextPrinting]_vars

\* the interpreter never stops running the traced program, and Tracer.trace
\* never stops between its own statements
FairSpec == Spec /\ WF_vars(Next)

\* the same machine for programs that rebind a name to comparable values
ScopeInputs ==
    [sources |-> {SrcAssign},
     names |-> {<<"x">>},
     values |-> {"1", "2", None},
     tracebacks |-> {"0x7f01"},
     keeps |-> FALSE]

InitScope == InitTracer /\ inputs = ScopeInputs

ScopeSpec == InitScope /\ [][Next]_vars

\* the same machine for sources that begin or end with a blank line
BlankLineInputs ==
    [sources |-> {SrcLeadingBlank, SrcTrailingBlank},
     names |-> {<<"x">>},
     values |-> {"1"},
     tracebacks |-> {"0x7f01"},
     keeps |-> FALSE]

InitBlankLine == InitTracer /\ inputs = BlankLineInputs

BlankLineSpec == InitBlankLine /\ [][Next]_vars

\* the same machine for a caller that traces a source, keeps the trace and
\* traces again, on an interpreter that places traceback objects at either
\* of two addresses
ReplayInputs ==
    [sources |-> {SrcAssign},
     names |-> {<<"x">>},
     values |-> {"1"},
     tracebacks |-> {"0x7f01", "0x7f02"},
     keeps |-> TRUE]

\* Tracers whose ceiling lies below the largest
InitReplay == InitTracer /\ max_steps < MaxSteps /\ inputs = ReplayInputs

ReplaySpec == InitReplay /\ [][Next]_vars

\* the same machine for a caller that keeps each trace while it calls trace
\* again on the same Tracer
KeepInputs ==
    [sources |-> {SrcAssign},
     names |-> {<<"x">>},
     values |-> {"1"},
     tracebacks |-> {"0x7f01"},
     keeps |-> TRUE]

\* Tracers with the lower ceilings
InitKeep == InitTracer /\ max_steps + 1 < MaxSteps /\ inputs = KeepInputs

KeepSpec == InitKeep /\ [][Next]_vars

\* the same machine for the source without statements, beside the assignment
StatementlessInputs ==
    [sources |-> {SrcEmpty, SrcAssign},
     names |-> {<<"x">>},
     values |-> {"1"},
     tracebacks |-> {"0x7f01"},
     keeps |-> FALSE]

InitStatementless == InitTracer /\ inputs = StatementlessInputs

StatementlessSpec == InitStatementless /\ [][Next]_vars

\* the same machine for sources whose lines are of the kinds the callback
\* tells apart
ClassifyInputs ==
    [sources |-> {SrcAssign, SrcAssignCompared, SrcAugmented, SrcCondition, SrcLoop},
     names |-> {<<"x">>},
     values |-> {"1"},
     tracebacks |-> {"0x7f01"},
     keeps |-> FALSE]

InitClassify == InitTracer /\ inputs = ClassifyInputs

ClassifySpec == InitClassify /\ [][Next]_vars

\* the same machine for sources that loop and branch
LoopInputs ==
    [sources |-> {SrcLoop, SrcCondition},
     names |-> {<<"x">>},
     values |-> {"1"},
     tracebacks |-> {"0x7f01"},
     keeps |-> FALSE]

\* Tracers whose ceiling lies below the largest
InitLoop == InitTracer /\ max_steps < MaxSteps /\ inputs = LoopInputs

LoopSpec == InitLoop /\ [][Next]_vars

\* the same machine for programs that bind internal names and functions
NamespaceInputs ==
    [sources |-> {SrcAssign},
     names |-> {<<"x">>, <<"_", "t">>},
     values |-> {"1", "fn"},
     tracebacks |-> {"0x7f01"},
     keeps |-> FALSE]

\* Tracers whose ceiling lies below the largest
InitNamespace == InitTracer /\ max_steps < MaxSteps /\ inputs = NamespaceInputs

NamespaceSpec == InitNamespace /\ [][Next]_vars

\* the same machine for programs that change a list and a generator in place
MutationInputs ==
    [sources |-> {SrcAssign},
     names |-> {<<"x">>},
     values |-> {"list:[]", "gen:0"},
     tracebacks |-> {"0x7f01"},
     keeps |-> FALSE]

\* Tracers whose ceiling lies below the largest
InitMutation == InitTracer /\ max_steps < MaxSteps /\ inputs = MutationInputs

NextMutating == Next \/ \E m \in Mutations : ProgMutate(m)

MutationSpec == InitMutation /\ [][NextMutating]_vars

\* -------------------------------------- the data model, called by a client
\* k times "a"
Rep(k) == [i \in 1..k |-> "a"]

\* what repr() gives the values a client passes: the empty text, and runs of
\* "a" that end in "a" or in "b", up to the longest
Renderings ==
    {<<>>} \cup {Rep(k) \o t : k \in 0..(MaxRendering - 1), t \in {<<"a">>, <<"b">>}}

\* a client calls Variable.from_value(name, value) for a value whose repr()
\* gives repr_val, or raises
FromValueCall(repr_val, raises) ==
    /\ pc = "idle"
    /\ api = <<>>
    /\ api' = <<[op |-> "from_value", rendering |-> repr_val, raises |-> raises,
                 repr_value |-> ReprText(raises, repr_val)]>>
    /\ UNCHANGED <<max_steps, code_lines, code, success, error_message, halts,
                   result, inputs, output_buffer, earlier>>
    /\ UNCHANGED hostVars
    /\ UNCHANGED tracerVars

\* a Tracer constructed with the largest ceiling stands by, unused
InitClient == Init /\ max_steps = MaxSteps /\ settrace = "none"

NextRendering ==
    /\ api = <<>>
    /\ \E repr_val \in Renderings, raises \in BOOLEAN : FromValueCall(repr_val, raises)

RenderingSpec == InitClient /\ [][NextRendering]_vars

\* ExecutionStep(step_number, line_number, line_content, step_type,
\* variables=...), as the tests build steps
HandBuiltStep(n, line_no, variables) ==
    ExecutionStep(n, line_no, SrcAssign, "ASSIGNMENT", variables, <<>>, None, 0,
        NoExc, <<>>)

\* the steps a client builds: numbered as it likes, without variables or
\* with x, unchanged or changed
HandBuiltSteps ==
    {HandBuiltStep(n, line_no, variables) :
        n \in 1..MaxQuery, line_no \in 1..2,
        variables \in {EmptyDict,
                       [m \in {<<"x">>} |-> FromValue(<<"x">>, "1", None)],
                       [m \in {<<"x">>} |-> FromValue(<<"x">>, "2", "1")]}}

\* trace.steps = [...]
HandBuiltSequences == UNION {[1..k -> HandBuiltSteps] : k \in 0..MaxQuery}

\* return self.steps[step_number - 1]
GetStepByPosition(s, n) == IF n \in 1..Len(s) THEN <<s[n]>> ELSE <<>>

\* the loop of ExecutionTrace.get_step from position i on
RECURSIVE GetStepFrom(_, _, _)
GetStepFrom(s, i, n) ==
    IF i > Len(s) THEN <<>>
    ELSE IF s[i].step_number = n THEN <<s[i]>>
    ELSE GetStepFrom(s, i + 1, n)

\* ExecutionTrace.get_step: <<the step>>, or <<>> for None
GetStep(s, n) == GetStepFrom(s, 1, n)

\* the history of the steps that changed the variable
RECURSIVE GetChangeHistory(_, _)
GetChangeHistory(s, variable_name) ==
    IF s = <<>> THEN <<>>
    ELSE IF /\ variable_name \in DOMAIN Head(s).variables
            /\ Head(s).variables[variable_name].changed
    THEN <<<<Head(s).step_number, Head(s).variables[variable_name]>>>>
            \o GetChangeHistory(Tail(s), variable_name)
    ELSE GetChangeHistory(Tail(s), variable_name)

\* ExecutionTrace.get_variable_history
RECURSIVE GetVariableHistory(_, _)
GetVariableHistory(s, variable_name) ==
    IF s = <<>> THEN <<>>
    ELSE IF variable_name \in DOMAIN Head(s).variables
    THEN <<<<Head(s).step_number, Head(s).variables[variable_name]>>>>
            \o GetVariableHistory(Tail(s), variable_name)
    ELSE GetVariableHistory(Tail(s), variable_name)

\* ExecutionTrace.get_lines_executed
GetLinesExecuted(s) == [i \in 1..Len(s) |-> s[i].line_number]

\* a client calls trace.get_step(n) on a trace it built
GetStepCall(s, n) ==
    /\ pc = "idle"
    /\ api = <<>>
    /\ api' = <<[op |-> "get_step", steps |-> s, n |-> n, ret |-> GetStep(s, n)]>>
    /\ UNCHANGED <<max_steps, code_lines, code, success, error_message, halts,
                   result, inputs, output_buffer, earlier>>
    /\ UNCHANGED hostVars
    /\ UNCHANGED tracerVars

\* a client calls trace.get_variable_history(name)
GetVariableHistoryCall(s, name) ==
    /\ pc = "idle"
    /\ api = <<>>
    /\ api' = <<[op |-> "get_variable_history", steps |-> s, name |-> name,
                 ret |-> GetVariableHistory(s, name)]>>
    /\ UNCHANGED <<max_steps, code_lines, code, success, error_message, halts,
                   result, inputs, output_buffer, earlier>>
    /\ UNCHANGED hostVars
    /\ UNCHANGED tracerVars

\* a client calls trace.get_lines_executed()
GetLinesExecutedCall(s) ==
    /\ pc = "idle"
    /\ api = <<>>
    /\ api' = <<[op |-> "get_lines_executed", steps |-> s,
                 ret |-> GetLinesExecuted(s)]>>
    /\ UNCHANGED <<max_steps, code_lines, code, success, error_message, halts,
                   result, inputs, output_buffer, earlier>>
    /\ UNCHANGED hostVars
    /\ UNCHANGED tracerVars

NextQuery ==
    /\ api = <<>>
    /\ \/ \E s \in HandBuiltSequences, n \in (0 - 1)..(MaxQuery + 1) :
             GetStepCall(s, n)
       \/ \E s \in HandBuiltSequences, name \in {<<"x">>, <<"y">>} :
             GetVariableHistoryCall(s, name)
       \/ \E s \in HandBuiltSequences : GetLinesExecutedCall(s)

QuerySpec == InitClient /\ [][NextQuery]_vars

\* the variables maps a client hands over: x and y, each one absent, held
\* unchanged or held changed
HandBuiltVariables ==
    UNION {{[n \in D |-> FromValue(n, IF n \in C THEN "2" ELSE "1",
                                       IF n \in C THEN "1" ELSE None)] :
               C \in SUBSET D} : D \in SUBSET {<<"x">>, <<"y">>}}

\* "  if x == 1: pass ": the condition inside a block
SrcIndented == <<" ", " ">> \o SrcCondition \o <<" ">>

\* the lines a client hands over
HandBuiltLines == {SrcAssign, SrcCondition, SrcIndented}

\* the kinds and events' arguments a client hands over: an 'exception'
\* event's argument is the triple of the exception
HandBuiltKinds ==
    {<<step_type, arg>> : step_type \in StepType \ {"EXCEPTION"}, arg \in {None, "1"}}
        \cup {<<"EXCEPTION", ExcInfo([etype |-> "Exception", msg |-> <<>>], "0x7f01")>>}

\* a client calls tracer._generate_explanation(step_type, line_content,
\* variables, arg)
GenerateExplanationCall(step_type, line_content, variables, arg) ==
    /\ pc = "idle"
    /\ api = <<>>
    /\ api' = <<[op |-> "_generate_explanation", step_type |-> step_type,
                 line_content |-> line_content, variables |-> variables,
                 ret |-> GenerateExplanation(step_type, line_content, variables, arg)]>>
    /\ UNCHANGED <<max_steps, code_lines, code, success, error_message, halts,
                   result, inputs, output_buffer, earlier>>
    /\ UNCHANGED hostVars
    /\ UNCHANGED tracerVars

NextExplaining ==
    /\ api = <<>>
    /\ \E kind \in HandBuiltKinds, line \in HandBuiltLines, v \in HandBuiltVariables :
           GenerateExplanationCall(kind[1], line, v, kind[2])

ExplainSpec == InitClient /\ [][NextExplaining]_vars

\* ================================================================= claims
\* the trace the finished invocation returned
Returned == pc = "returned" /\ Len(result) = 1
Trace == result[1]
CompileFailed == Compile(code).outcome # "ok"
\* an uncaught failure ended the traced program
UncaughtFailure == pending.active
\* the text is the empty string
IsEmptyText(text) == \A i \in 1..Len(text) : text[i] = ""
LastStep(t) == t.steps[Len(t.steps)]

\* C1: for max_steps >= 1 the returned trace never holds more steps than
\* max_steps, also when the traced program fails after the ceiling.
StepsWithinCeiling ==
    (Returned /\ max_steps >= 1) => Len(Trace.steps) <= max_steps

\* C2: a traced program that never leaves its module frame by itself does
\* not keep Tracer.trace from finishing.
NonHaltingTraceFinishes ==
    (pc = "exec" /\ ~halts /\ max_steps >= 1) ~> (pc = "returned" \/ pc = "raised")

\* C3: the i-th step of the sequence carries step_number i, in the Tracer
\* while it records and in the trace it returns, the step the except clause
\* adds included.
StepNumbersRun ==
    /\ \A i \in 1..Len(steps) : steps[i].step_number = i
    /\ Returned => \A i \in 1..Len(Trace.steps) : Trace.steps[i].step_number = i

\* a returned trace that ends with the step of the except clause
WitnessStepNumbersRun ==
    /\ Returned
    /\ Len(Trace.steps) = 3
    /\ LastStep(Trace).step_type = "EXCEPTION"
    /\ LastStep(Trace).exception # NoExc

\* C4: Tracer.trace never raises to its caller.
TraceNeverRaises == pc # "raised"

\* C5: in a returned trace success is false exactly when the source did not
\* compile or an uncaught failure ended execution, and error_message is
\* non-empty exactly when success is false.
SuccessIffNoFailure ==
    Returned =>
        /\ ~Trace.success <=> (CompileFailed \/ UncaughtFailure)
        /\ ~IsEmptyText(Trace.error_message) <=> ~Trace.success

\* a trace returned after an uncaught failure whose message is empty
WitnessSuccessIffNoFailure ==
    /\ Returned
    /\ UncaughtFailure
    /\ pending.exc.msg = ""
    /\ ~Trace.success

\* C6: when the source does not compile, the returned trace has no steps,
\* success is false, error_message is "SyntaxError: <diagnostic> (line <n>)",
\* and the callback was neither registered nor invoked.
ParseFailureTrace ==
    (Returned /\ CompileFailed) =>
        /\ Trace.steps = <<>>
        /\ ~Trace.success
        /\ Trace.error_message[1] = "SyntaxError: "
        /\ \E i \in 1..Len(Trace.error_message) :
              Trace.error_message[i] = Compile(code).msg
        /\ \E i \in 1..Len(Trace.error_message) :
              Trace.error_message[i] = Compile(code).lineno
        /\ settrace # "tracer"
        /\ traced_events = 0
        /\ step_count = 0
        /\ frames = <<>>

\* the malformed source has been traced
WitnessParseFailureTrace ==
    /\ Returned
    /\ code = SrcMalformed
    /\ CompileFailed
    /\ Trace.total_lines = 1

\* C7: when an uncaught failure leaves the traced program and max_steps >= 1,
\* the returned trace has at least one step, success is false, error_message
\* is "<kind>: <message>" and the last step is an EXCEPTION step.
RuntimeFailureTrace ==
    (Returned /\ UncaughtFailure /\ max_steps >= 1) =>
        /\ Len(Trace.steps) >= 1
        /\ ~Trace.success
        /\ Trace.error_message = <<pending.exc.etype, ": ", pending.exc.msg>>
        /\ LastStep(Trace).step_type = "EXCEPTION"
        /\ LastStep(Trace).exception = pending.exc

\* the failure left a program whose observation had been cut off
WitnessRuntimeFailureTrace ==
    /\ Returned
    /\ UncaughtFailure
    /\ max_steps >= 1
    /\ stopped
    /\ pending.exc.etype = "NameError"

\* C8: a failure the traced program raises only after the ceiling was reached
\* neither sets success to false nor adds a step to the trace.
LateFailureLeavesTraceAlone ==
    (Returned /\ UncaughtFailure /\ pending.late) =>
        /\ Trace.success
        /\ Len(Trace.steps) = step_count

\* C9: a program that produced more than max_steps traced events and ended
\* without failure gives exactly max_steps steps, success true and an empty
\* error_message.
CeilingAloneIsNoFailure ==
    (Returned /\ ~CompileFailed /\ ~UncaughtFailure /\ traced_events > max_steps) =>
        /\ Len(Trace.steps) = max_steps
        /\ Trace.success
        /\ Trace.error_message = <<>>

\* a cut-off program that ended normally
WitnessCeilingAloneIsNoFailure ==
    /\ Returned
    /\ ~UncaughtFailure
    /\ traced_events > max_steps
    /\ max_steps = 2
    /\ Len(Trace.steps) = 2

\* some event of the running program reaches the callback in this step
EventArrives ==
    \/ \E file \in Filenames, args \in Args, line_no \in LineNumbers, e \in Raised :
          ProgCall(file, args, line_no, e)
    \/ \E line_no \in LineNumbers, e \in Raised :
          ProgLine(line_no, e) /\ Delivered(Top, "line")
    \/ \E line_no \in LineNumbers, tb \in inputs.tracebacks, e \in Raised :
          ProgExceptionEvent(line_no, tb, e) /\ Delivered(Top, "exception")
    \/ \E line_no \in LineNumbers, e \in Raised :
          ProgUnwind(line_no, e) /\ Delivered(Top, "return")
    \/ \E arg \in inputs.values \cup {None}, line_no \in LineNumbers, e \in Raised :
          ProgReturn(arg, line_no, e) /\ Delivered(Top, "return")

\* C10: within one invocation the event that arrives when step_count equals
\* max_steps is not recorded and sets _stopped; once _stopped is set every
\* event gets None back (a frame entered then gets no local hook) and leaves
\* steps, step_count, call_depth and previous_variables as they are; and
\* _stopped is cleared only by the start of the next invocation.
StopLatch ==
    [][
        /\ (pc \in {"entering", "exec"} /\ settrace = "tracer"
              /\ step_count = max_steps /\ EventArrives)
           => (stopped' /\ steps' = steps /\ step_count' = step_count)
        /\ (pc \in {"entering", "exec"} /\ stopped)
           => /\ UNCHANGED <<steps, step_count, call_depth, previous_variables>>
              /\ Len(frames') > Len(frames) => ~frames'[Len(frames')].f_trace
        /\ (stopped /\ ~stopped') => (pc \in {"returned", "raised"} /\ step_count' = 0)
    ]_vars

\* observation has been cut off while the program still runs
WitnessStopLatch ==
    /\ pc = "exec"
    /\ stopped
    /\ max_steps >= 1
    /\ Len(steps) = max_steps
    /\ Len(frames) = 2

\* the running program takes a step of its own
ProgramStep ==
    \/ \E file \in Filenames, args \in Args, line_no \in LineNumbers, e \in Raised :
          ProgCall(file, args, line_no, e)
    \/ \E line_no \in LineNumbers, e \in Raised : ProgLine(line_no, e)
    \/ \E name \in inputs.names, value \in inputs.values : ProgStore(name, value)
    \/ \E text \in Texts : ProgPrint(text)
    \/ \E line_no \in LineNumbers, tb \in inputs.tracebacks, e \in Raised :
          ProgExceptionEvent(line_no, tb, e)
    \/ ProgCatch
    \/ \E arg \in inputs.values \cup {None}, line_no \in LineNumbers, e \in Raised :
          ProgReturn(arg, line_no, e)

\* s is the beginning of t
IsPrefix(s, t) == Len(s) <= Len(t) /\ SubSeq(t, 1, Len(s)) = s

DepthBefore(s, i) == IF i = 1 THEN 0 ELSE s[i - 1].call_depth

\* C12: every recorded step has call_depth >= 0; a CALL step records the
\* depth before it plus 1, a RETURN step that depth minus 1 floored at 0,
\* and a step of any other kind records it unchanged.
DepthsFollowSteps ==
    \A i \in 1..Len(steps) :
        /\ steps[i].call_depth >= 0
        /\ steps[i].call_depth =
              IF steps[i].step_type = "CALL" THEN DepthBefore(steps, i) + 1
              ELSE IF steps[i].step_type = "RETURN"
              THEN Max(0, DepthBefore(steps, i) - 1)
              ELSE DepthBefore(steps, i)

\* C13: the Tracer's callback is the host's trace hook only while exec() is
\* running; whenever Tracer.trace has returned or has let a failure
\* propagate, it is not registered.
HookRemovedOnExit ==
    /\ settrace = "tracer" => pc \in {"entering", "exec", "exited"}
    /\ pc \in {"returned", "raised"} => settrace # "tracer"

\* a failure left Tracer.trace after observation had stopped at the ceiling
WitnessHookRemovedOnExit ==
    /\ pc = "raised"
    /\ stopped
    /\ pending.active
    /\ pending.origin = "program"
    /\ settrace = "none"

\* C14: a variable is flagged changed only against an earlier snapshot of
\* the same scope; in particular the step recorded on entering a called
\* function, whose scope has no earlier step, flags none of its variables.
CalleeNotFlaggedAgainstCaller ==
    \A i \in 1..Len(steps) :
        steps[i].step_type = "CALL" =>
            \A n \in DOMAIN steps[i].variables : ~steps[i].variables[n].changed

\* C15: in every step the callback records, a variable is flagged changed
\* exactly when the name was bound in the preceding captured step and its
\* value now differs from the value it had there, whatever that value was
\* (None included).
ChangedIffPreviousDiffers ==
    [][
        (pc \in {"entering", "exec"} /\ Len(steps') = Len(steps) + 1) =>
            LET variables == steps'[Len(steps')].variables
            IN \A n \in DOMAIN variables :
                  variables[n].changed <=>
                      /\ n \in DOMAIN previous_variables
                      /\ previous_variables[n] # variables[n].value
    ]_vars

\* C16: a line event of the traced source that arrives below the ceiling is
\* recorded as a step whatever the values in the frame are (a value that
\* cannot be rendered, compared or copied included), and no failure of the
\* snapshot reaches the traced program or the trace.
SnapshotFailureRecovered ==
    [][
        (/\ pc = "exec"
         /\ ~CeilingReached
         /\ Top.co_filename = TracedFilename
         /\ \E line_no \in LineNumbers, e \in Raised :
               ProgLine(line_no, e) /\ Delivered(Top, "line"))
        => /\ Len(steps') = Len(steps) + 1
           /\ DOMAIN steps'[Len(steps')].variables = DOMAIN Top.f_locals
           /\ ~pending'.active
    ]_vars

\* line n of the text c, the empty string when c has no line n
SourceLine(c, n) ==
    IF n \in 1..RawLineCount(c) THEN Split(c, "\n")[n] ELSE <<>>

\* C17: the line_content of every step is the text of line line_number of
\* the source that was passed to trace, also when the source begins or ends
\* with a blank line.
LineContentIsSourceLine ==
    \A i \in 1..Len(steps) :
        steps[i].line_content = SourceLine(code, steps[i].line_number)

\* C18: a function of the source that refers to a name bound at the top
\* level of the source (another function defined there, or itself) finds it:
\* no NameError arises in the traced program and none ends a trace.
TopLevelNamesResolve ==
    /\ ~(pending.active /\ pending.exc = NameError)
    /\ Returned => Trace.error_message # FormatError(NameError)

\* two steps that record the same event of the same program (the same
\* exception, for a step the callback recorded at an 'exception' event)
SameEvent(a, b) ==
    /\ a.step_type = b.step_type
    /\ a.line_number = b.line_number
    /\ a.line_content = b.line_content
    /\ a.variables = b.variables
    /\ a.output = b.output
    /\ a.return_value = b.return_value
    /\ a.call_depth = b.call_depth
    /\ a.exception = b.exception
    /\ (a.step_type = "EXCEPTION" /\ a.exception = NoExc) =>
          /\ a.explanation[2].etype = b.explanation[2].etype
          /\ a.explanation[2].value = b.explanation[2].value

\* C19: when a source is traced again with the same max_steps, a step of the
\* later invocation that records the same events as the earlier one did up
\* to it carries the same explanation.
RepeatedTraceAgrees ==
    (earlier # <<>> /\ earlier[1].code = code) =>
        \A i \in 1..Len(steps) :
            (/\ i <= Len(earlier[1].steps)
             /\ \A j \in 1..i : SameEvent(earlier[1].steps[j], steps[j]))
            => steps[i].explanation = earlier[1].steps[i].explanation

ForeignEventArrives ==
    \/ /\ settrace = "tracer"
       /\ \E args \in Args, line_no \in LineNumbers, e \in Raised :
             ProgCall(OtherFilename, args, line_no, e)
    \/ /\ pc = "exec"
       /\ Top.co_filename = OtherFilename
       /\ Top.f_trace
       /\ settrace = "tracer"
       /\ \/ \E line_no \in LineNumbers, e \in Raised : ProgLine(line_no, e)
          \/ \E line_no \in LineNumbers, tb \in inputs.tracebacks, e \in Raised :
                ProgExceptionEvent(line_no, tb, e)
          \/ \E line_no \in LineNumbers, e \in Raised : ProgUnwind(line_no, e)
          \/ \E arg \in inputs.values \cup {None}, line_no \in LineNumbers, e \in Raised :
                ProgReturn(arg, line_no, e)

\* C21: an event of a frame that does not belong to the traced source records
\* no step and leaves steps, step_count, call_depth, previous_variables and
\* current_variables as they are; no failure leaves the callback; and the
\* callback answers with itself (the frame entered gets the local hook, the
\* hook stays registered) unless the stop is latched when it returns.
ForeignFrameLeavesTracerAlone ==
    [][
        ForeignEventArrives =>
            /\ UNCHANGED <<steps, step_count, call_depth, previous_variables,
                           current_variables>>
            /\ settrace' = "tracer"
            /\ pending'.origin # "callback"
            /\ stopped' <=> CeilingReached
            /\ Len(frames') > Len(frames) =>
                  (frames'[Len(frames')].f_trace <=> ~stopped')
    ]_vars

\* a function of another file runs under the local hook below the ceiling,
\* called from the traced source after two steps were recorded
WitnessForeignFrameLeavesTracerAlone ==
    /\ pc = "exec"
    /\ Len(frames) = 2
    /\ frames[1].co_filename = TracedFilename
    /\ Top.co_filename = OtherFilename
    /\ Top.f_trace
    /\ ~stopped
    /\ step_count = 2
    /\ Len(steps) = 2
    /\ call_depth = 1

\* C22: the value and the printable form a step holds for a variable whose
\* value could be deep-copied are those the live value had when the step was
\* recorded, and nothing the program does afterwards (a change of the live
\* object in place included) alters them in that step.
SnapshotsIndependent ==
    [][
        /\ (pc \in {"entering", "exec"} /\ Len(steps') = Len(steps) + 1) =>
              LET frame == IF Len(frames') > Len(frames)
                           THEN frames'[Len(frames')]
                           ELSE Top
                  variables == steps'[Len(steps')].variables
              IN \A n \in DOMAIN variables :
                    /\ Content(variables[n].value) = Content(frame.f_locals[n])
                    /\ variables[n].repr_value = ReprValue(frame.f_locals[n])
        /\ (pc = "exec" /\ pc' \in {"exec", "exited"}) =>
              \A i \in 1..Len(steps) :
                  \A n \in DOMAIN steps[i].variables :
                      IsCopyable(steps[i].variables[n].value) =>
                          /\ n \in DOMAIN steps'[i].variables
                          /\ steps'[i].variables[n].value = steps[i].variables[n].value
                          /\ steps'[i].variables[n].repr_value =
                                steps[i].variables[n].repr_value
    ]_vars

\* the list was empty at step 2 and the program appended to it afterwards:
\* the returned trace shows the empty list in step 2 and the longer one among
\* the final variables
WitnessSnapshotsIndependent ==
    /\ Returned
    /\ Len(Trace.steps) = 2
    /\ <<"x">> \in DOMAIN Trace.steps[2].variables
    /\ Trace.steps[2].variables[<<"x">>].value = "copy:[]"
    /\ Trace.steps[2].variables[<<"x">>].repr_value = "[]"
    /\ <<"x">> \in DOMAIN Trace.final_variables
    /\ Trace.final_variables[<<"x">>].value = "copy:[1]"
    /\ exec_locals[<<"x">>] = "list:[1]"

\* C23: the repr_value Variable.from_value gives has at most 103 characters,
\* and it is the rendering itself when that has at most 100 characters.
ReprValueBounded ==
    (api # <<>> /\ api[1].op = "from_value") =>
        /\ Len(api[1].repr_value) <= 103
        /\ (~api[1].raises /\ Len(api[1].rendering) <= 100) =>
              api[1].repr_value = api[1].rendering

\* a rendering of 101 characters was cut to its first 97 and the ellipsis
WitnessReprValueBounded ==
    /\ api # <<>>
    /\ api[1].op = "from_value"
    /\ ~api[1].raises
    /\ Len(api[1].rendering) = 101
    /\ api[1].rendering[101] = "b"
    /\ Len(api[1].repr_value) = 100
    /\ SubSeq(api[1].repr_value, 1, 97) = SubSeq(api[1].rendering, 1, 97)
    /\ SubSeq(api[1].repr_value, 98, 100) = <<".", ".", ".">>

\* the positions of s whose step carries the number n
Numbered(s, n) == {i \in 1..Len(s) : s[i].step_number = n}

\* C24: get_step(n) returns the step numbered n that stands first in the
\* sequence, and None when no step carries the number n (n <= 0 and n beyond
\* the number of steps included).
GetStepReturnsFirstNumbered ==
    (api # <<>> /\ api[1].op = "get_step") =>
        LET s == api[1].steps
            at == Numbered(s, api[1].n)
        IN IF at = {}
           THEN api[1].ret = <<>>
           ELSE api[1].ret = <<s[CHOOSE i \in at : \A j \in at : i <= j]>>

\* two different steps carry the number 2; the first one, at position 1, is
\* returned
WitnessGetStepReturnsFirstNumbered ==
    /\ api # <<>>
    /\ api[1].op = "get_step"
    /\ api[1].n = 2
    /\ Len(api[1].steps) = 2
    /\ api[1].steps[1].step_number = 2
    /\ api[1].steps[2].step_number = 2
    /\ api[1].steps[1] # api[1].steps[2]
    /\ api[1].ret = <<api[1].steps[1]>>

\* the positions of s whose step holds the variable
Holding(s, name) == {i \in 1..Len(s) : name \in DOMAIN s[i].variables}

\* C25: get_variable_history(name) returns, for the steps that hold name and
\* for no others, the pair (step_number, snapshot), one per step and in the
\* order of the step sequence, which is by increasing step_number when the
\* steps are numbered so; get_lines_executed returns the line number of every
\* step in the same order.
HistoryFollowsSteps ==
    /\ (api # <<>> /\ api[1].op = "get_variable_history") =>
          LET s == api[1].steps
              at == Holding(s, api[1].name)
              ret == api[1].ret
          IN /\ Len(ret) = Cardinality(at)
             /\ \A i \in at :
                   ret[Cardinality({j \in at : j <= i})] =
                       <<s[i].step_number, s[i].variables[api[1].name]>>
             /\ (\A i, j \in 1..Len(s) : i < j => s[i].step_number < s[j].step_number)
                   => \A k, l \in 1..Len(ret) : k < l => ret[k][1] < ret[l][1]
    /\ (api # <<>> /\ api[1].op = "get_lines_executed") =>
          /\ Len(api[1].ret) = Len(api[1].steps)
          /\ \A i \in 1..Len(api[1].steps) :
                api[1].ret[i] = api[1].steps[i].line_number

\* of two steps only the second holds x, unchanged: its pair is the history
WitnessHistoryFollowsSteps ==
    /\ api # <<>>
    /\ api[1].op = "get_variable_history"
    /\ api[1].name = <<"x">>
    /\ Len(api[1].steps) = 2
    /\ Holding(api[1].steps, <<"x">>) = {2}
    /\ ~api[1].steps[2].variables[<<"x">>].changed
    /\ api[1].ret = <<<<api[1].steps[2].step_number, api[1].steps[2].variables[<<"x">>]>>>>

\* C26: during an invocation every event the callback handles leaves the
\* steps as they are or appends one step to them, so that a step once at
\* position i stays there as it was recorded, and the steps change nowhere
\* else between the start of the invocation and its return.
StepsAppendOnly ==
    [][
        /\ pc \in {"entering", "exec"} =>
              \/ steps' = steps
              \/ /\ Len(steps') = Len(steps) + 1
                 /\ SubSeq(steps', 1, Len(steps)) = steps
        /\ pc \in {"compiled", "exited", "unwound", "handled"} => steps' = steps
    ]_vars

EmptySourceGivesNoSteps ==
    (Returned /\ code = SrcEmpty) => (Trace.success /\ Trace.steps = <<>>)

\* the step keeps return_value to RETURN and exception to EXCEPTION
FieldsMatchKind(step) ==
    /\ step.return_value # None => step.step_type = "RETURN"
    /\ step.exception # NoExc => step.step_type = "EXCEPTION"

\* C29: a step carries a return_value only if it is a RETURN step and an
\* exception only if it is an EXCEPTION step; the steps of every other kind
\* have neither, in the Tracer while it records and in the trace it returns.
OptionalFieldsMatchKind ==
    /\ \A i \in 1..Len(steps) : FieldsMatchKind(steps[i])
    /\ Returned => \A i \in 1..Len(Trace.steps) : FieldsMatchKind(Trace.steps[i])

\* a returned trace with a RETURN step that carries the value 1 and, last,
\* the EXCEPTION step that carries the failure
WitnessOptionalFieldsMatchKind ==
    /\ Returned
    /\ \E i \in 1..Len(Trace.steps) :
          /\ Trace.steps[i].step_type = "RETURN"
          /\ Trace.steps[i].return_value = "1"
          /\ Trace.steps[i].exception = NoExc
    /\ LastStep(Trace).step_type = "EXCEPTION"
    /\ LastStep(Trace).exception # NoExc
    /\ LastStep(Trace).return_value = None

\* the characters that make an = next to them part of a comparison or of a
\* compound assignment
OperatorHeads == {"=", "!", "<", ">", "+", "-", "*", "/", "%", "&", "|", "^"}

\* the text holds an = that belongs to no comparison and to no compound
\* assignment
HasPlainAssign(s) ==
    \E i \in 1..Len(s) :
        /\ s[i] = "="
        /\ i > 1 => s[i - 1] \notin OperatorHeads
        /\ i < Len(s) => s[i + 1] # "="

\* the kind a line has by these rules
LineKind(line_content) ==
    LET stripped == Strip(line_content)
    IN IF stripped = <<>> \/ StartsWith(stripped, <<"#">>) THEN "LINE"
       ELSE IF \/ \E op \in CompoundAssignment : Contains(stripped, op)
               \/ HasPlainAssign(stripped)
            THEN "ASSIGNMENT"
       ELSE IF \/ StartsWith(stripped, <<"f", "o", "r", " ">>)
               \/ StartsWith(stripped, <<"w", "h", "i", "l", "e", " ">>)
            THEN "LOOP_START"
       ELSE IF \/ StartsWith(stripped, <<"i", "f", " ">>)
               \/ StartsWith(stripped, <<"e", "l", "i", "f", " ">>)
               \/ StartsWith(stripped, <<"e", "l", "s", "e">>)
            THEN "CONDITION"
       ELSE "LINE"

\* C30: the step of a 'line' event is an ASSIGNMENT when its trimmed line
\* holds a compound-assignment operator or an = that is part of no comparison
\* and of no compound assignment (a comparison elsewhere on the line does not
\* matter), else a LOOP_START when the line begins with for or while, else a
\* CONDITION when it begins with if, elif or else, else a LINE; blank and
\* comment-only lines are LINE.
LineEventsClassified ==
    \A i \in 1..Len(steps) :
        steps[i].step_type \notin {"CALL", "RETURN", "EXCEPTION"} =>
            steps[i].step_type = LineKind(steps[i].line_content)

\* the names of the variables that a map flags as changed
ChangedNames(variables) == {n \in DOMAIN variables : variables[n].changed}

\* C31: the explanation of an ASSIGNMENT step whose variables hold exactly one
\* changed variable is "Set <name> to <printable>" with the name and the
\* printable representation of that variable, and the explanation of a
\* CONDITION step is "Evaluating condition: " followed by the trimmed line.
ExplanationNamesTheChange ==
    \A i \in 1..Len(api) :
        api[i].op = "_generate_explanation" =>
            /\ api[i].step_type = "ASSIGNMENT" =>
                  \A n \in ChangedNames(api[i].variables) :
                      ChangedNames(api[i].variables) = {n} =>
                          api[i].ret = <<"Set ", api[i].variables[n].name, " to ",
                                         api[i].variables[n].repr_value>>
            /\ api[i].step_type = "CONDITION" =>
                  api[i].ret = <<"Evaluating condition: ", Strip(api[i].line_content)>>

\* an explained assignment "x = 1" whose map holds x unchanged and y changed
ExplanationNamesTheChangeWitness ==
    /\ api # <<>>
    /\ api[1].op = "_generate_explanation"
    /\ api[1].step_type = "ASSIGNMENT"
    /\ api[1].line_content = SrcAssign
    /\ DOMAIN api[1].variables = {<<"x">>, <<"y">>}
    /\ ChangedNames(api[1].variables) = {<<"y">>}
    /\ api[1].ret = <<"Set ", <<"y">>, " to ", api[1].variables[<<"y">>].repr_value>>

\* C32: a return event that carries a value and arrives below the ceiling is
\* recorded as a RETURN step explained by "Returning: " and the printable
\* representation of the value, built as Variable.from_value builds it (the
\* sentinel when rendering fails), and no failure of the rendering leaves the
\* callback.
ReturnExplanationRecovered ==
    [][
        (/\ pc = "exec"
         /\ ~CeilingReached
         /\ Top.co_filename = TracedFilename
         /\ ~CaptureRaises(Top.f_locals, previous_variables)
         /\ \E arg \in inputs.values \ {None}, line_no \in LineNumbers, e \in Raised :
               ProgReturn(arg, line_no, e) /\ Delivered(Top, "return"))
        => /\ Len(steps') = Len(steps) + 1
           /\ steps'[Len(steps')].step_type = "RETURN"
           /\ steps'[Len(steps')].explanation =
                 <<"Returning: ", ReprValue(steps'[Len(steps')].return_value)>>
           /\ ~pending'.active
    ]_vars

\* C33: the repr_value Variable.from_value gives for a rendering longer than
\* 100 characters is the first 100 characters of the rendering followed by
\* "...", and it is "<repr error>" when the rendering raises.
LongRenderingKeepsHundred ==
    (api # <<>> /\ api[1].op = "from_value") =>
        /\ api[1].raises => api[1].repr_value = ReprError
        /\ (~api[1].raises /\ Len(api[1].rendering) > ReprLimit) =>
              api[1].repr_value =
                  SubSeq(api[1].rendering, 1, ReprLimit) \o <<".", ".", ".">>

\* C34: the final_variables of a returned trace hold no internal name and no
\* binding to an untraced callable, as the variables of a step do.
FinalVariablesExcludeLikeSteps ==
    Returned =>
        \A n \in DOMAIN Trace.final_variables :
            /\ ~IsInternalName(n)
            /\ ~IsUntracedCallable(Trace.final_variables[n].value)

\* C35: along the steps of a trace the output never shrinks: the output of
\* each step is the beginning of the output of the next one, the step the
\* except clause adds included, and the output of the last step is the
\* beginning of final_output.
OutputNeverShrinks ==
    /\ \A i \in 1..(Len(steps) - 1) : IsPrefix(steps[i].output, steps[i + 1].output)
    /\ (Returned /\ Trace.steps # <<>>) =>
          IsPrefix(LastStep(Trace).output, Trace.final_output)

\* the positions of s whose step is of the kind
OfKind(s, kind) == {i \in 1..Len(s) : s[i].step_type = kind}

\* C36: a trace that ended without failure, was not cut by the ceiling and
\* holds a step ends with a RETURN step of call_depth 0, holds as many CALL
\* steps as RETURN steps, and every binding of its final_variables that is
\* neither internal nor an untraced callable is in the variables of its last
\* step with the same repr_value.
CleanTraceIsClosed ==
    (Returned /\ Trace.success /\ ~stopped /\ Trace.steps # <<>>) =>
        /\ LastStep(Trace).step_type = "RETURN"
        /\ LastStep(Trace).call_depth = 0
        /\ Cardinality(OfKind(Trace.steps, "CALL")) =
              Cardinality(OfKind(Trace.steps, "RETURN"))
        /\ \A n \in DOMAIN Trace.final_variables :
              (~IsInternalName(n) /\ ~IsUntracedCallable(Trace.final_variables[n].value)) =>
                  /\ n \in DOMAIN LastStep(Trace).variables
                  /\ LastStep(Trace).variables[n].repr_value =
                        Trace.final_variables[n].repr_value

\* the kinds of step the callback and the except clause give
RecordedKinds ==
    {"LINE", "CALL", "RETURN", "EXCEPTION", "ASSIGNMENT", "LOOP_START", "CONDITION"}

\* C37: every recorded step is a LINE, CALL, RETURN, EXCEPTION, ASSIGNMENT,
\* LOOP_START or CONDITION step: none is a LOOP_ITERATION or a LOOP_END step.
NoLoopIterationOrEnd ==
    \A i \in 1..Len(steps) :
        /\ steps[i].step_type \in RecordedKinds
        /\ steps[i].step_type \notin {"LOOP_ITERATION", "LOOP_END"}

\* the header of the loop was recorded as a LOOP_START step, and the ceiling
\* cut what came after it
NoLoopIterationOrEndWitness ==
    /\ pc = "exec"
    /\ code = SrcLoop
    /\ Len(steps) = 2
    /\ steps[1].step_type = "CALL"
    /\ steps[2].step_type = "LOOP_START"
    /\ steps[2].line_content = SrcLoop
    /\ stopped

\* C38: Tracer.trace leaves the trace function of the interpreter as it found
\* it: when another party's callback is registered before the first
\* invocation, that callback is registered whenever an invocation has
\* returned or raised.
HookLeftAsFound ==
    (settrace = "other") => [](pc \in {"returned", "raised"} => settrace = "other")

====
